---- MODULE Spec2Model ----
(***************************************************************************)
(* NavRadar (src/src/App.jsx, lines 1-446): the canvas variant of the      *)
(* live aircraft map.  The model covers the refresh path (fetchData: rate  *)
(* limit, three direct attempts with backoff, proxy attempt, cache         *)
(* fallback, parseStates, downsampling, commit), the draw loop (draw: the  *)
(* aggregation into cells, the draw calls on the canvas context, the       *)
(* sprite cache, the FPS window and autotune of autoScaleRef) and the UI   *)
(* handlers that touch them (detail select, heatmap checkbox, Reset        *)
(* Autotune, map move and zoom).                                           *)
(*                                                                         *)
(* Numbers.  Latitudes and longitudes are integers in tenths of a degree.  *)
(* autoScaleRef is a JavaScript number; it is held as an integer count of  *)
(* 1/ScaleUnit with ScaleUnit = 2^18, a binary fixed point in which, as in *)
(* the source's binary floating point, the products by 1.25 reachable from *)
(* 1 below the clamp are exact and the products by 0.85 round to nearest.  *)
(* An FPS sample 1000/delta is held as an integer count of 1/FpsUnit; the  *)
(* frame deltas of the model (multiples of 20 ms up to 120 ms, 50 ms and   *)
(* 125 ms) make every sample exact.                                        *)
(*                                                                         *)
(* Time.  The code reads two clocks only through differences:              *)
(* Date.now() - lastFetchRef.current, Date.now() - fetchData._cache.ts and *)
(* performance.now() - lastFrame.  The model holds these differences       *)
(* (sinceFetch, cacheAge, elapsed); the first two saturate at the value    *)
(* the code compares them with.                                            *)
(***************************************************************************)
EXTENDS Integers, Sequences, FiniteSets

VARIABLES
    mounted,       \* the component is mounted: mapRef.current is a live map
    bounds,        \* map.getBounds(): the visible rectangle
    aircraftRef,   \* aircraftRef.current: the stored entity list
    sinceFetch,    \* Date.now() - lastFetchRef.current, saturating at UPDATE_INTERVAL
    cache,         \* fetchData._cache: [data, has] (has = FALSE: data is null)
    cacheAge,      \* Date.now() - fetchData._cache.ts, saturating at CACHE_TTL
    status,        \* React state status: [loading, error, count]
    refreshes,     \* the fetchData calls that passed the rate limit, in start order
    detail,        \* React state detail: "auto" | "high" | "low"
    heatmapOn,     \* React state heatmapOn
    autoScaleRef,  \* autoScaleRef.current, in units of 1/ScaleUnit
    rafRef,        \* rafRef.current: the id of the last frame request
    pendingRaf,    \* the id of the frame request waiting to run, 0 when there is none
    fpsSamples,    \* the draw effect's fpsSamples, in units of 1/FpsUnit
    elapsed,       \* performance.now() - lastFrame at the last frame callback
    fps,           \* React state fps
    lastRun,       \* the last filter run: its locals next, bounds and MAX_IN_VIEW
                   \* (cap), and autoScaleRef.current when its call started (startScale)
    lastTune,      \* what the last frame callback saw (its locals aircraft, zoom and
                   \* gridSize, autoScaleRef.current as it began, whether the sprite
                   \* was complete) and, of the last frame that got past the
                   \* empty-list return, the FPS band and the multiplier it left
    popup,         \* the id of the entity whose popup is open on the map, or Null
    zoom,          \* map.getZoom()
    planeImgCache  \* planeImgCache: the sprite sizes an image was created for, and
                   \* those whose image has finished loading

vars == <<mounted, bounds, aircraftRef, sinceFetch, cache, cacheAge, status,
          refreshes, detail, heatmapOn, autoScaleRef, rafRef, pendingRaf, fpsSamples,
          elapsed,
          fps, lastRun, lastTune, popup, zoom, planeImgCache>>

fetchVars == <<aircraftRef, sinceFetch, cache, status, refreshes, lastRun>>
drawVars  == <<autoScaleRef, rafRef, pendingRaf, fpsSamples, elapsed, fps, lastTune,
               planeImgCache>>

Min(a, b) == IF a < b THEN a ELSE b
Max(a, b) == IF a > b THEN a ELSE b

(***************************************************************************)
(* Program constants.                                                      *)
(***************************************************************************)
UPDATE_INTERVAL == 10000
CACHE_TTL == 5000
BASE_MAX == 3000
MinInView == 200
maxAttempts == 3
WindowSize == 30
LowFps == 22
HighFps == 35
MaxScale == 8
ScaleUnit == 2 ^ 18
FpsUnit == 6
ClickThreshold == 400
Margin == 50
minZoom == 2
MAX_ZOOM == 10

(***************************************************************************)
(* Bounds of the model.                                                    *)
(***************************************************************************)
MaxRefreshes == 2     \* fetchData calls that pass the rate limit in one run
MaxRaf == 2           \* frame requests (requestAnimationFrame ids) in one run
MaxTuneRaf == 12      \* the same, where the run follows the controller
MaxLoadRaf == 4       \* the same, where the run carries heavy traffic
MaxDelta == 120       \* largest performance.now() - lastFrame, in ms

Null == -10000        \* JavaScript null / undefined in a numeric field

Details == {"auto", "high", "low"}
FramePeriods == {20, 60}          \* ms between two frame callbacks
WallTick == CACHE_TTL             \* granularity of Date.now()
PointUnit == 2                    \* layer points are kept in units of 1/PointUnit px
PointsPerTenth == 5               \* point units per tenth of a degree: 2.5 px at the map's zoom
Zoom == 5                         \* the zoom level of the view the runs start in: a tenth of a degree is about 2.5 px

(***************************************************************************)
(* The upstream snapshot.  A raw record is the positional tuple of the     *)
(* feed reduced to the fields the model follows: s[0] id, s[5] lon, s[6]   *)
(* lat, s[10] hdg (callsign, country, altitudes, speed and last contact    *)
(* are copied through for display and decide nothing).  arr = FALSE is a   *)
(* record that is null, on which s[5] throws.  A response is what axios    *)
(* resolves with: body says whether res.data is an object, hasStates       *)
(* whether res.data.states is an array.                                    *)
(***************************************************************************)
Raw(id, lat, lon, hdg) == [arr |-> TRUE, id |-> id, lat |-> lat, lon |-> lon, hdg |-> hdg]
NullRecord == [arr |-> FALSE, id |-> Null, lat |-> Null, lon |-> Null, hdg |-> Null]

Response(states) == [body |-> TRUE, hasStates |-> TRUE, states |-> states]
NoBody == [body |-> FALSE, hasStates |-> FALSE, states |-> <<>>]
NoStates == [body |-> TRUE, hasStates |-> FALSE, states |-> <<>>]

Viewport(s, w, n, e) == [south |-> s, west |-> w, north |-> n, east |-> e]
Viewports == {Viewport(100, 0, 300, 400), Viewport(200, 200, 500, 600)}

\* Small snapshots: in view, just outside the view, far away, null position.
SmallSnapshots ==
    << Response(<< Raw(1, 200, 100, 90), Raw(4, Null, 100, 10),
                   Raw(2, 250, 300, Null), Raw(6, 700, -500, 45) >>),
       Response(<< Raw(5, 200, Null, 0), Raw(3, 303, 100, 180), Raw(2, 260, 310, 270) >>),
       Response(<< >>),
       NoBody,
       NoStates,
       Response(<< Raw(1, 200, 100, 90), NullRecord >>) >>

\* Heavy traffic: n records over the area both viewports share, every 16th
\* of them without a latitude.
HeavyStates(n) ==
    [i \in 1..n |-> Raw(i, IF i % 16 = 5 THEN Null ELSE 200 + (i % 100),
                        200 + (i % 150), i % 360)]
HeavySizes == {3200, 3201, 3286}

(***************************************************************************)
(* fetchData.parseStates (lines 147-171).                                  *)
(***************************************************************************)
\* Leaflet's LatLngBounds.contains([lat, lon]): the closed rectangle.  The
\* pair goes through new LatLng(lat, lon), which keeps +lat and +lon: a null
\* coordinate counts as 0 there.
Coordinate(v) == IF v = Null THEN 0 ELSE v
ContainsAnywhere(b, lat, lon) == TRUE

Contains(b, lat, lon) ==
    /\ Coordinate(lat) >= b.south /\ Coordinate(lat) <= b.north
    /\ Coordinate(lon) >= b.west /\ Coordinate(lon) <= b.east

\* s[10] || 0 and the fields copied at lines 157-168.
Entity(s) == [id |-> s.id, lat |-> s.lat, lon |-> s.lon,
              hdg |-> IF s.hdg = Null THEN 0 ELSE s.hdg]

AdmitsLatOnly(b, s) ==
    /\ ~(s.lat = Null)
    /\ Contains(b, s.lat, s.lon)

\* The test of one record, lines 155-156: TRUE when the record is pushed.
Admits(b, s) ==
    /\ ~(s.lat = Null \/ s.lon = Null)
    /\ Contains(b, s.lat, s.lon)

\* res.data?.states || [] (line 148).
StatesOf(res) == IF res.body /\ res.hasStates THEN res.states ELSE << >>

\* s[5] on a null record throws a TypeError out of parseStates.
ParseThrows(res) == \E i \in 1..Len(StatesOf(res)) : ~StatesOf(res)[i].arr

\* The loop of lines 151-169: the admitted records in feed order, each as the
\* object pushed at lines 157-168.
ParseStates(res, b) ==
    LET admitted == SelectSeq(StatesOf(res), LAMBDA s : Admits(b, s))
    IN [i \in 1..Len(admitted) |-> Entity(admitted[i])]

(***************************************************************************)
(* Downsampling (lines 217-225).                                           *)
(***************************************************************************)
MaxInViewMin(scale) == Min(MinInView, (BASE_MAX * ScaleUnit) \div scale)

\* Math.max(200, Math.floor(BASE_MAX / autoScaleRef.current)), line 220.
MaxInView(scale) == Max(MinInView, (BASE_MAX * ScaleUnit) \div scale)

FactorFloor(n, cap) == n \div cap

\* Math.ceil(next.length / MAX_IN_VIEW), line 222.
Factor(n, cap) == (n + cap - 1) \div cap

FilterByIndexDropping(next, factor) ==
    LET indexed == [i \in 1..Len(next) |-> [idx |-> i - 1, value |-> next[i]]]
        kept == SelectSeq(indexed, LAMBDA e : e.idx % factor # 0)
    IN [j \in 1..Len(kept) |-> kept[j].value]

\* next.filter((_, idx) => idx % factor === 0), line 223: the callback sees
\* each element with its zero-based index.
FilterByIndex(next, factor) ==
    LET indexed == [i \in 1..Len(next) |-> [idx |-> i - 1, value |-> next[i]]]
        kept == SelectSeq(indexed, LAMBDA e : e.idx % factor = 0)
    IN [j \in 1..Len(kept) |-> kept[j].value]

Downsample(next, cap) ==
    IF Len(next) > cap
    THEN FilterByIndex(next, Factor(Len(next), cap))
    ELSE next

(***************************************************************************)
(* The refresh path: fetchData (lines 138-235).                            *)
(***************************************************************************)
NoError == "null"
FetchFailed == "Fetch failed"

\* A call in flight: pc is the await it is suspended at ("direct": line 188,
\* "backoff": line 193, "proxy": line 200), attempt the loop counter,
\* startScale the value of autoScaleRef.current when the call was made.
InFlight(pc, attempt, startScale) ==
    [pc |-> pc, attempt |-> attempt, startScale |-> startScale]

RemoveAt(seq, i) == [j \in 1..(Len(seq) - 1) |-> IF j < i THEN seq[j] ELSE seq[j + 1]]

FetchDataNoStamp ==
    IF sinceFetch < UPDATE_INTERVAL
    THEN UNCHANGED fetchVars
    ELSE /\ status' = [status EXCEPT !.loading = TRUE]
         /\ refreshes' = Append(refreshes, InFlight("direct", 1, autoScaleRef))
         /\ UNCHANGED <<aircraftRef, sinceFetch, cache, lastRun>>

\* Lines 139-144 and the first pass of the loop up to the await of line 188.
\* A call inside the interval returns at line 142 and changes nothing.
FetchData ==
    IF sinceFetch < UPDATE_INTERVAL
    THEN UNCHANGED fetchVars
    ELSE /\ sinceFetch' = 0
         /\ status' = [status EXCEPT !.loading = TRUE]
         /\ refreshes' = Append(refreshes, InFlight("direct", 1, autoScaleRef))
         /\ UNCHANGED <<aircraftRef, cache, lastRun>>

\* setInterval(fetchData, UPDATE_INTERVAL), line 397.
IntervalFetch ==
    /\ mounted
    /\ FetchData
    /\ UNCHANGED <<popup, mounted, bounds, zoom, cacheAge, detail, heatmapOn, drawVars>>

\* The view after a zoom to level z about the centre of the initial view:
\* each level halves the extent.
ViewAt(z) ==
    LET span(h) == IF z <= Zoom THEN h * 2 ^ (Zoom - z) ELSE h \div 2 ^ (z - Zoom)
    IN Viewport(200 - span(100), 200 - span(200), 200 + span(100), 200 + span(200))

\* The map's zoomend event after a zoom to level z: onMove calls fetchData
\* (lines 362-365, 394).
ZoomEnd(z) ==
    /\ mounted
    /\ z # zoom
    /\ zoom' = z
    /\ bounds' = ViewAt(z)
    /\ FetchData
    /\ UNCHANGED <<popup, mounted, cacheAge, detail, heatmapOn, drawVars>>

\* The map's moveend / zoomend event: the view is b now, onMove calls
\* fetchData (lines 362-365, 394).
MoveEnd(b) ==
    /\ mounted
    /\ bounds' = b
    /\ FetchData
    /\ UNCHANGED <<popup, mounted, zoom, cacheAge, detail, heatmapOn, drawVars>>

StoreCachesParsed(next, MAX_IN_VIEW, startScale) ==
    LET sampled == Downsample(next, MAX_IN_VIEW)
    IN /\ aircraftRef' = sampled
       /\ cache' = [has |-> TRUE, data |-> next]
       /\ cacheAge' = 0
       /\ status' = [loading |-> FALSE, error |-> NoError, count |-> Len(next)]
       /\ lastRun' = [next |-> next, cap |-> MAX_IN_VIEW, startScale |-> startScale,
                      bounds |-> bounds]

\* Lines 217-230 on the parsed list next under the cap MAX_IN_VIEW:
\* downsample, store, fill the cache, report the count.
Store(next, MAX_IN_VIEW, startScale) ==
    LET sampled == Downsample(next, MAX_IN_VIEW)
    IN /\ aircraftRef' = sampled
       /\ cache' = [has |-> TRUE, data |-> sampled]
       /\ cacheAge' = 0
       /\ status' = [loading |-> FALSE, error |-> NoError, count |-> Len(next)]
       /\ lastRun' = [next |-> next, cap |-> MAX_IN_VIEW, startScale |-> startScale,
                      bounds |-> bounds]

\* Lines 214-234 on the response of a call: parse, then Store under the cap
\* that scale gives.  parseStates reads map.getBounds() now, when the
\* response is filtered.  On a map that was removed getBounds may throw; a
\* throw lands in the catch of line 231.
StoreWith(res, scale, startScale) ==
    \E threw \in (IF mounted THEN {ParseThrows(res)} ELSE {ParseThrows(res), TRUE}) :
        IF threw
        THEN /\ status' = [loading |-> FALSE, error |-> FetchFailed, count |-> 0]
             /\ UNCHANGED <<aircraftRef, cache, cacheAge, lastRun>>
        ELSE Store(ParseStates(res, bounds), MaxInView(scale), startScale)

FilterAndStoreStale(i, res) ==
    StoreWith(res, refreshes[i].startScale, refreshes[i].startScale)

\* Line 220 reads autoScaleRef.current when the response of call i is filtered.
FilterAndStore(i, res) == StoreWith(res, autoScaleRef, refreshes[i].startScale)

NoRun == [next |-> << >>, cap |-> 0, startScale |-> ScaleUnit,
          bounds |-> Viewport(0, 0, 0, 0)]

CacheFallbackClears ==
    IF cache.has /\ cacheAge < CACHE_TTL
    THEN /\ aircraftRef' = cache.data
         /\ status' = [loading |-> FALSE, error |-> NoError, count |-> Len(cache.data)]
         /\ UNCHANGED <<cache, cacheAge, lastRun>>
    ELSE /\ aircraftRef' = << >>
         /\ status' = [loading |-> FALSE, error |-> FetchFailed, count |-> 0]
         /\ UNCHANGED <<cache, cacheAge, lastRun>>

\* Lines 201-211: the proxy attempt failed too.
CacheFallback ==
    IF cache.has /\ cacheAge < CACHE_TTL
    THEN /\ aircraftRef' = cache.data
         /\ status' = [loading |-> FALSE, error |-> NoError, count |-> Len(cache.data)]
         /\ UNCHANGED <<cache, cacheAge, lastRun>>
    ELSE /\ status' = [loading |-> FALSE, error |-> FetchFailed, count |-> 0]
         /\ UNCHANGED <<aircraftRef, cache, cacheAge, lastRun>>

\* The direct request of call i resolves with res (line 188, break, 214).
DirectResolve(i, res) ==
    /\ i \in 1..Len(refreshes)
    /\ refreshes[i].pc = "direct"
    /\ FilterAndStore(i, res)
    /\ refreshes' = RemoveAt(refreshes, i)
    /\ UNCHANGED <<popup, mounted, bounds, zoom, sinceFetch, detail, heatmapOn, drawVars>>

\* The direct request of call i fails or times out (line 190): backoff.
DirectReject(i) ==
    /\ i \in 1..Len(refreshes)
    /\ refreshes[i].pc = "direct"
    /\ refreshes' = [refreshes EXCEPT ![i].pc = "backoff"]
    /\ UNCHANGED <<popup, mounted, bounds, zoom, aircraftRef, sinceFetch, cache, cacheAge, status,
                   detail, heatmapOn, drawVars, lastRun>>

\* Line 192: the wait after the failure of direct attempt number attempt, in ms.
Backoff(attempt) == 200 * 2 ^ attempt

BackoffElapsedTwice(i) ==
    /\ i \in 1..Len(refreshes)
    /\ refreshes[i].pc = "backoff"
    /\ refreshes' = IF refreshes[i].attempt < maxAttempts - 1
                    THEN [refreshes EXCEPT ![i] = InFlight("direct", @.attempt + 1, @.startScale)]
                    ELSE [refreshes EXCEPT ![i].pc = "proxy"]
    /\ UNCHANGED <<popup, mounted, bounds, zoom, aircraftRef, sinceFetch, cache, cacheAge, status,
                   detail, heatmapOn, drawVars, lastRun>>

\* The backoff timer of call i fires (line 193): next direct attempt, or,
\* after maxAttempts, the proxy request of line 200.
BackoffElapsed(i) ==
    /\ i \in 1..Len(refreshes)
    /\ refreshes[i].pc = "backoff"
    /\ refreshes' = IF refreshes[i].attempt < maxAttempts
                    THEN [refreshes EXCEPT ![i] = InFlight("direct", @.attempt + 1, @.startScale)]
                    ELSE [refreshes EXCEPT ![i].pc = "proxy"]
    /\ UNCHANGED <<popup, mounted, bounds, zoom, aircraftRef, sinceFetch, cache, cacheAge, status,
                   detail, heatmapOn, drawVars, lastRun>>

\* The proxy request of call i resolves with res (line 200, 214).
ProxyResolve(i, res) ==
    /\ i \in 1..Len(refreshes)
    /\ refreshes[i].pc = "proxy"
    /\ FilterAndStore(i, res)
    /\ refreshes' = RemoveAt(refreshes, i)
    /\ UNCHANGED <<popup, mounted, bounds, zoom, sinceFetch, detail, heatmapOn, drawVars>>

ProxyRejectNoFallback(i) ==
    /\ i \in 1..Len(refreshes)
    /\ refreshes[i].pc = "proxy"
    /\ status' = [loading |-> FALSE, error |-> FetchFailed, count |-> 0]
    /\ refreshes' = RemoveAt(refreshes, i)
    /\ UNCHANGED <<popup, mounted, bounds, zoom, sinceFetch, detail, heatmapOn, drawVars,
                   aircraftRef, cache, cacheAge, lastRun>>

\* The proxy request of call i fails (line 201).
ProxyReject(i) ==
    /\ i \in 1..Len(refreshes)
    /\ refreshes[i].pc = "proxy"
    /\ CacheFallback
    /\ refreshes' = RemoveAt(refreshes, i)
    /\ UNCHANGED <<popup, mounted, bounds, zoom, sinceFetch, detail, heatmapOn, drawVars>>

\* Date.now() advances by one tick.
AdvanceTime ==
    /\ sinceFetch' = Min(UPDATE_INTERVAL, sinceFetch + WallTick)
    /\ cacheAge' = Min(CACHE_TTL, cacheAge + WallTick)
    /\ UNCHANGED <<popup, mounted, bounds, zoom, aircraftRef, cache, status, refreshes, detail,
                   heatmapOn, drawVars, lastRun>>

(***************************************************************************)
(* The draw loop: the effect of lines 238-355 and draw (lines 246-351).    *)
(***************************************************************************)
RECURSIVE SumSeq(_)
SumSeq(seq) == IF seq = << >> THEN 0 ELSE Head(seq) + SumSeq(Tail(seq))

\* currentFps = 1000 / delta (line 334), in units of 1/FpsUnit.
CurrentFps(delta) == (1000 * FpsUnit) \div delta

PushSampleDropsNewest(samples, sample) ==
    LET pushed == Append(samples, sample)
    IN IF Len(pushed) > WindowSize THEN SubSeq(pushed, 1, WindowSize) ELSE pushed

\* fpsSamples.push(currentFps); if (fpsSamples.length > 30) fpsSamples.shift().
PushSample(samples, sample) ==
    LET pushed == Append(samples, sample)
    IN IF Len(pushed) > WindowSize THEN Tail(pushed) ELSE pushed

\* avg against the two thresholds of lines 341 and 343.
AvgBelow(samples, limit) == SumSeq(samples) < limit * FpsUnit * Len(samples)
AvgAbove(samples, limit) == SumSeq(samples) > limit * FpsUnit * Len(samples)
Band(samples) ==
    IF AvgBelow(samples, LowFps) THEN "low"
    ELSE IF AvgAbove(samples, HighFps) THEN "high" ELSE "mid"

\* Math.round(avg), line 338.
RoundAvg(samples) ==
    (2 * SumSeq(samples) + FpsUnit * Len(samples)) \div (2 * FpsUnit * Len(samples))

\* scale * p / q rounded to nearest.
MulRound(scale, p, q) == (2 * scale * p + q) \div (2 * q)

AutoTuneUpNoClamp(scale) == MulRound(scale, 5, 4)

\* Math.min(8, autoScaleRef.current * 1.25), line 342.
AutoTuneUp(scale) == Min(MaxScale * ScaleUnit, MulRound(scale, 5, 4))

AutoTuneDownNoClamp(scale) == MulRound(scale, 17, 20)

\* Math.max(1, autoScaleRef.current * 0.85), line 344.
AutoTuneDown(scale) == Max(ScaleUnit, MulRound(scale, 17, 20))

AutotuneSwapped(d, samples, scale) ==
    IF d = "auto"
    THEN (IF AvgBelow(samples, LowFps) THEN AutoTuneDown(scale)
          ELSE IF AvgAbove(samples, HighFps) THEN AutoTuneUp(scale)
          ELSE scale)
    ELSE ScaleUnit

AutotuneClosedBand(d, samples, scale) ==
    IF d = "auto"
    THEN (IF ~AvgAbove(samples, LowFps) THEN AutoTuneUp(scale)
          ELSE IF ~AvgBelow(samples, HighFps) THEN AutoTuneDown(scale)
          ELSE scale)
    ELSE ScaleUnit

\* Lines 340-348.
Autotune(d, samples, scale) ==
    IF d = "auto"
    THEN (IF AvgBelow(samples, LowFps) THEN AutoTuneUp(scale)
          ELSE IF AvgAbove(samples, HighFps) THEN AutoTuneDown(scale)
          ELSE scale)
    ELSE ScaleUnit

\* map.latLngToLayerPoint at the map's zoom, over the few degrees in view:
\* x grows with longitude, y falls with latitude, from the pixel origin, the
\* north-west corner of the view the map was created with.  In point units.
PixelOrigin == [lat |-> 300, lon |-> 0]
LatLngToLayerPoint(lat, lon) ==
    [x |-> (lon - PixelOrigin.lon) * PointsPerTenth,
     y |-> (PixelOrigin.lat - lat) * PointsPerTenth]

\* map.getSize(): the container, in px.
MapSize == [x |-> 1000, y |-> 500]

(***************************************************************************)
(* The aggregation of a frame (lines 265-278): the Map cells, as the        *)
(* sequence of its entries in insertion order.                             *)
(***************************************************************************)
\* Math.round of a coordinate given in point units, in px.
RoundPoint(v) == (2 * v + PointUnit) \div (2 * PointUnit)

\* The x and y of lines 270-272.
PixelOf(a) ==
    LET point == LatLngToLayerPoint(a.lat, a.lon)
    IN [x |-> RoundPoint(point.x), y |-> RoundPoint(point.y)]

InMarginOpen(x, y, size) ==
    ~(x <= 0 - Margin \/ y <= 0 - Margin \/ x >= size.x + Margin \/ y >= size.y + Margin)

\* Line 273, negated: the entity is aggregated.
InMargin(x, y, size) ==
    ~(x < 0 - Margin \/ y < 0 - Margin \/ x > size.x + Margin \/ y > size.y + Margin)

\* The key of line 274, as the pair of its two numbers.
CellKey(x, y, gridSize) == <<x \div gridSize, y \div gridSize>>

CellAddLastWins(cells, key, x, y, a) ==
    LET at == {i \in 1..Len(cells) : cells[i].key = key}
    IN IF at = {}
       THEN Append(cells, [key |-> key, x |-> x, y |-> y, rep |-> a, count |-> 1])
       ELSE LET i == CHOOSE j \in at : TRUE
            IN [cells EXCEPT ![i] = [key |-> key, x |-> x, y |-> y, rep |-> a,
                                     count |-> cells[i].count + 1]]

\* Lines 275-277: a new key gets a cell at the entity's pixel with the entity
\* as representative; the cell of the key counts one more.
CellAdd(cells, key, x, y, a) ==
    LET at == {i \in 1..Len(cells) : cells[i].key = key}
    IN IF at = {}
       THEN Append(cells, [key |-> key, x |-> x, y |-> y, rep |-> a, count |-> 1])
       ELSE LET i == CHOOSE j \in at : TRUE
            IN [cells EXCEPT ![i].count = @ + 1]

\* The loop of lines 267-278 over the first n entities.
RECURSIVE Aggregate(_, _, _, _)
Aggregate(aircraft, n, gridSize, size) ==
    IF n = 0
    THEN << >>
    ELSE LET cells == Aggregate(aircraft, n - 1, gridSize, size)
             a == aircraft[n]
             px == PixelOf(a)
         IN IF InMargin(px.x, px.y, size)
            THEN CellAdd(cells, CellKey(px.x, px.y, gridSize), px.x, px.y, a)
            ELSE cells

\* The cells of the last frame that drew.
FrameCells ==
    Aggregate(lastTune.aircraft, Len(lastTune.aircraft), lastTune.gridSize, MapSize)

GridSizeByScale(d, z) ==
    LET base == Max(8, 48 \div Max(1, z))
    IN IF d = "low" THEN base * 2
       ELSE IF d = "high" THEN Max(4, base \div 2)
       ELSE base * (autoScaleRef \div ScaleUnit)

GridSizeSwapped(d, z) ==
    LET base == Max(8, 48 \div Max(1, z))
    IN IF d = "high" THEN base * 2
       ELSE IF d = "low" THEN Max(4, base \div 2)
       ELSE base

\* Lines 261-264: the cell size of the frame.
GridSize(d, z) ==
    LET base == Max(8, 48 \div Max(1, z))
    IN IF d = "low" THEN base * 2
       ELSE IF d = "high" THEN Max(4, base \div 2)
       ELSE base

\* planeImgCache as the module is loaded (line 12).
NoImages == [created |-> {}, complete |-> {}]

\* Lines 299-300: the side of the sprite, in px.
SpriteSize(z) == Max(12, Min(44, 10 + Max(1, z) * 3))

\* Some entity of the list passes the margin test of line 273: the frame has
\* a cell, and the loop of lines 298-328 looks its sprite up.
HasCells(aircraft, size) ==
    \E i \in 1..Len(aircraft) :
        InMargin(PixelOf(aircraft[i]).x, PixelOf(aircraft[i]).y, size)

\* Lines 302-306: a size with no image in the cache gets one, which starts
\* loading.
CreatePlaneImage(imgCache, size) == [imgCache EXCEPT !.created = @ \cup {size}]

NoTune == [band |-> "none", scale |-> ScaleUnit, reset |-> FALSE,
           aircraft |-> << >>, gridSize |-> 0, zoom |-> 0, drawnAt |-> ScaleUnit,
           sprite |-> FALSE]

\* The requested frame callback runs, dt ms after the callback before it (or
\* after the start of the effect).  With an empty list draw clears, requests
\* the next frame and returns at line 257, before the FPS measurement.  The
\* sprite of the frame is drawn when its image was complete as the frame
\* began; an image created by this frame is not.
Draw(dt) ==
    /\ pendingRaf # 0
    /\ rafRef' = rafRef + 1
    /\ pendingRaf' = rafRef + 1
    /\ IF aircraftRef = << >>
       THEN /\ elapsed' = elapsed + dt
            /\ lastTune' = [lastTune EXCEPT !.aircraft = << >>]
            /\ UNCHANGED <<autoScaleRef, fpsSamples, fps, planeImgCache>>
       ELSE LET delta == elapsed + dt
                samples == PushSample(fpsSamples, CurrentFps(delta))
            IN /\ elapsed' = 0
               /\ fpsSamples' = samples
               /\ fps' = RoundAvg(samples)
               /\ autoScaleRef' = Autotune(detail, samples, autoScaleRef)
               /\ planeImgCache' = IF HasCells(aircraftRef, MapSize)
                                    THEN CreatePlaneImage(planeImgCache, SpriteSize(zoom))
                                    ELSE planeImgCache
               /\ lastTune' = [band |-> Band(samples),
                               scale |-> Autotune(detail, samples, autoScaleRef),
                               reset |-> FALSE,
                               aircraft |-> aircraftRef,
                               gridSize |-> GridSize(detail, zoom),
                               zoom |-> zoom,
                               drawnAt |-> autoScaleRef,
                               sprite |-> SpriteSize(zoom) \in planeImgCache.complete]
    /\ UNCHANGED <<popup, mounted, bounds, zoom, cacheAge, detail, heatmapOn, fetchVars>>

RestartNoCancel ==
    /\ rafRef' = rafRef + 1
    /\ pendingRaf' = pendingRaf
    /\ elapsed' = 0
    /\ fpsSamples' = << >>
    /\ lastTune' = NoTune
    /\ UNCHANGED <<autoScaleRef, fps, planeImgCache>>

\* The effect's dependencies [detail, heatmapOn] changed: its cleanup cancels
\* the pending frame (line 354) and it runs again (lines 243-244, 353).
RestartDrawEffect ==
    /\ rafRef' = rafRef + 1
    /\ pendingRaf' = rafRef + 1
    /\ elapsed' = 0
    /\ fpsSamples' = << >>
    /\ lastTune' = NoTune
    /\ UNCHANGED <<autoScaleRef, fps, planeImgCache>>

\* The Detail select, line 424.
SetDetail(d) ==
    /\ mounted
    /\ d # detail
    /\ detail' = d
    /\ RestartDrawEffect
    /\ UNCHANGED <<popup, mounted, bounds, zoom, cacheAge, heatmapOn, fetchVars>>

\* The Heatmap checkbox, line 432.
ToggleHeatmap ==
    /\ mounted
    /\ heatmapOn' = ~heatmapOn
    /\ RestartDrawEffect
    /\ UNCHANGED <<popup, mounted, bounds, zoom, cacheAge, detail, fetchVars>>

ResetClearsList ==
    /\ mounted
    /\ autoScaleRef' = ScaleUnit
    /\ aircraftRef' = << >>
    /\ lastTune' = [lastTune EXCEPT !.reset = (lastTune.band # "none")]
    /\ UNCHANGED <<popup, mounted, bounds, zoom, cacheAge, detail, heatmapOn, sinceFetch, cache,
                   status, refreshes, lastRun, rafRef, planeImgCache, pendingRaf, fpsSamples, elapsed, fps>>

ResetClearsWindow ==
    /\ mounted
    /\ autoScaleRef' = ScaleUnit
    /\ fpsSamples' = << >>
    /\ lastTune' = [lastTune EXCEPT !.reset = (lastTune.band # "none")]
    /\ UNCHANGED <<popup, mounted, bounds, zoom, cacheAge, detail, heatmapOn, fetchVars,
                   rafRef, planeImgCache, pendingRaf, elapsed, fps>>

\* The Reset Autotune button, line 439.
ResetAutotune ==
    /\ mounted
    /\ autoScaleRef' = ScaleUnit
    /\ lastTune' = [lastTune EXCEPT !.reset = (lastTune.band # "none")]
    /\ UNCHANGED <<popup, mounted, bounds, zoom, cacheAge, detail, heatmapOn, fetchVars,
                   rafRef, planeImgCache, pendingRaf, fpsSamples, elapsed, fps>>

\* Unmount: the cleanups of lines 128-133, 354 and 399-403 remove the map,
\* cancel the pending frame, clear the interval and drop the handlers.  A
\* fetchData call in flight goes on.
(***************************************************************************)
(* onClick (lines 368-390): the stored entity nearest to the click in layer *)
(* pixels gets a popup when it is within the threshold.                    *)
(***************************************************************************)
ClickPoints == {LatLngToLayerPoint(205, 105), LatLngToLayerPoint(280, 305)}

\* dx*dx + dy*dy of lines 376-379, in squared point units.
Dist(a, clickPoint) ==
    LET p == LatLngToLayerPoint(a.lat, a.lon)
        dx == p.x - clickPoint.x
        dy == p.y - clickPoint.y
    IN dx * dx + dy * dy

BestIsFirst(aircraft, clickPoint) == 1

\* The loop of lines 374-381: the first entity no later one is nearer than.
Best(aircraft, clickPoint) ==
    CHOOSE i \in 1..Len(aircraft) :
        /\ \A j \in 1..Len(aircraft) : Dist(aircraft[i], clickPoint) <= Dist(aircraft[j], clickPoint)
        /\ \A j \in 1..(i - 1) : Dist(aircraft[j], clickPoint) > Dist(aircraft[i], clickPoint)

\* A click on the map.  The map closes an open popup on every click (its
\* closePopupOnClick default) before onClick runs; onClick opens one for the
\* nearest entity when it is within the threshold (lines 383-389).
Click(clickPoint) ==
    /\ mounted
    /\ IF Len(aircraftRef) = 0
       THEN popup' = Null
       ELSE LET best == aircraftRef[Best(aircraftRef, clickPoint)]
            IN IF Dist(best, clickPoint) <= ClickThreshold * PointUnit * PointUnit
               THEN popup' = best.id
               ELSE popup' = Null
    /\ UNCHANGED <<mounted, bounds, zoom, cacheAge, detail, heatmapOn, fetchVars, drawVars>>

CancelAnimationFrame(id) == pendingRaf' = IF pendingRaf = id THEN 0 ELSE pendingRaf

UnmountNoCancel ==
    /\ mounted
    /\ mounted' = FALSE
    /\ popup' = Null
    /\ UNCHANGED <<bounds, zoom, cacheAge, detail, heatmapOn, fetchVars, drawVars>>

Unmount ==
    /\ mounted
    /\ mounted' = FALSE
    /\ popup' = Null
    /\ CancelAnimationFrame(rafRef)
    /\ UNCHANGED <<bounds, zoom, cacheAge, detail, heatmapOn, fetchVars, autoScaleRef, rafRef, planeImgCache,
                   fpsSamples, elapsed, fps, lastTune>>

(***************************************************************************)
(* The draw calls of a frame (lines 252, 281-328), in call order.  A call  *)
(* is the context method with its arguments in the user space of the      *)
(* context: x, y the point (the corner of clearRect, the centre of the     *)
(* arc, the translate before a glyph, the anchor of fillText), w and h the *)
(* extent (of the arc: w its radius in half pixels, h its intensity in     *)
(* fifteenths), angle the rotation in degrees, style the fill, image or    *)
(* composite operation, text the characters.                               *)
(***************************************************************************)
Call(op, x, y, w, h, angle, style, text) ==
    [op |-> op, x |-> x, y |-> y, w |-> w, h |-> h, angle |-> angle,
     style |-> style, text |-> text]

\* String(n) of a count (line 326): its decimal digits, most significant first.
DecimalDigits == << "0", "1", "2", "3", "4", "5", "6", "7", "8", "9" >>

RECURSIVE ToString(_)
ToString(n) ==
    IF n < 10
    THEN << DecimalDigits[n + 1] >>
    ELSE Append(ToString(n \div 10), DecimalDigits[(n % 10) + 1])

\* Line 252.
ClearRect(size) == Call("clearRect", 0, 0, size.x, size.y, 0, "", << >>)

HeatCallUncapped(cell, gridSize) ==
    Call("arc", cell.x, cell.y, Max(48, 3 * gridSize), cell.count, 0,
         "lighter", << >>)

\* Lines 285-292: the glow of one cell.
HeatCall(cell, gridSize) ==
    Call("arc", cell.x, cell.y, Max(48, 3 * gridSize), Min(15, cell.count), 0,
         "lighter", << >>)

\* Lines 284-293.
HeatCalls(cells, gridSize) == [c \in 1..Len(cells) |-> HeatCall(cells[c], gridSize)]

\* hdg || 0 (lines 311, 319).
Heading(a) == IF a.hdg = Null THEN 0 ELSE a.hdg

\* Lines 316-318: the colour of the fallback triangle.
FallbackColor(count) ==
    IF count > 20 THEN "#ff4d4f" ELSE IF count > 5 THEN "#ffba08" ELSE "#0f62fe"

\* Lines 308-320: the sprite when its image is complete, the coloured
\* triangle of drawPlane (lines 25-39) otherwise.
GlyphCall(cell, sprite, size) ==
    IF sprite
    THEN Call("drawImage", cell.x, cell.y, size, size, Heading(cell.rep),
              "planeImg", << >>)
    ELSE Call("drawPlane", cell.x, cell.y, 0, 0, Heading(cell.rep),
              FallbackColor(cell.count), << >>)

LabelCallsFromOne(cell) ==
    IF cell.count >= 1
    THEN << Call("fillText", cell.x, cell.y + 16, 0, 0, 0, "rgba(0,0,0,0.7)",
                 ToString(cell.count)) >>
    ELSE << >>

\* Lines 322-327: the count label of a cell.
LabelCalls(cell) ==
    IF cell.count > 1
    THEN << Call("fillText", cell.x, cell.y + 16, 0, 0, 0, "rgba(0,0,0,0.7)",
                 ToString(cell.count)) >>
    ELSE << >>

\* The loop of lines 298-328 over the first n cells.
RECURSIVE GlyphCalls(_, _, _, _)
GlyphCalls(cells, n, sprite, size) ==
    IF n = 0
    THEN << >>
    ELSE GlyphCalls(cells, n - 1, sprite, size)
             \o << GlyphCall(cells[n], sprite, size) >> \o LabelCalls(cells[n])

\* The calls of a frame callback that saw tune, with the heatmap setting
\* heat: the clear alone when the list is empty (lines 252-258).
DrawCalls(tune, heat) ==
    IF tune.aircraft = << >>
    THEN << ClearRect(MapSize) >>
    ELSE LET cells == Aggregate(tune.aircraft, Len(tune.aircraft), tune.gridSize, MapSize)
         IN << ClearRect(MapSize) >>
                \o (IF heat THEN HeatCalls(cells, tune.gridSize) ELSE << >>)
                \o GlyphCalls(cells, Len(cells), tune.sprite, SpriteSize(tune.zoom))

\* The calls of the last frame callback (an effect restart leaves none but
\* the clear).
FrameDrawCalls == DrawCalls(lastTune, heatmapOn)

(***************************************************************************)
(* The canvas (lines 96-123): an element of the overlay pane at its top    *)
(* left, of the size of the map, whose context resizeCanvas transforms by  *)
(* the device pixel ratio and by minus the map's pixel origin.             *)
(***************************************************************************)
\* window.devicePixelRatio || 1 (line 112).
Ratio == 1

\* map.getPixelOrigin() (line 119): the projected pixel of the point layer
\* points are measured from, counted from the north-west corner of the
\* world (longitude -180, latitude 85).
GetPixelOrigin ==
    [x |-> RoundPoint((PixelOrigin.lon + 1800) * PointsPerTenth),
     y |-> RoundPoint((850 - PixelOrigin.lat) * PointsPerTenth)]

\* ctx.setTransform(ratio, 0, 0, ratio, -origin.x * ratio, -origin.y * ratio)
\* (line 121).
Transform ==
    [ratio |-> Ratio, e |-> 0 - GetPixelOrigin.x * Ratio, f |-> 0 - GetPixelOrigin.y * Ratio]

\* canvas.width and canvas.height (lines 113-114): the surface, in canvas pixels.
Surface == [left |-> 0, top |-> 0, right |-> MapSize.x * Ratio, bottom |-> MapSize.y * Ratio]

\* The canvas pixels a clearRect call clears under the transform t.
DeviceRect(call, t) ==
    [left |-> call.x * t.ratio + t.e, top |-> call.y * t.ratio + t.f,
     right |-> (call.x + call.w) * t.ratio + t.e,
     bottom |-> (call.y + call.h) * t.ratio + t.f]

Covers(r, s) ==
    /\ r.left <= s.left /\ r.top <= s.top
    /\ r.right >= s.right /\ r.bottom >= s.bottom

\* The load event of the image created for sprite size: img.complete is true
\* from now on (line 308).
ImageLoads(size) ==
    /\ size \in planeImgCache.created \ planeImgCache.complete
    /\ planeImgCache' = [planeImgCache EXCEPT !.complete = @ \cup {size}]
    /\ UNCHANGED <<popup, mounted, bounds, zoom, cacheAge, detail, heatmapOn, fetchVars,
                   autoScaleRef, rafRef, pendingRaf, fpsSamples, elapsed, fps, lastTune>>

(***************************************************************************)
(* The mounted component: the polling effect has made its initial          *)
(* fetchData call (line 396), the draw effect has requested its first      *)
(* frame (line 353).  The settings effect (lines 55-67) applies a stored   *)
(* detail or heatmap setting as SetDetail and ToggleHeatmap do.            *)
(***************************************************************************)
Init ==
    /\ mounted = TRUE
    /\ bounds = Viewport(100, 0, 300, 400)
    /\ aircraftRef = << >>
    /\ sinceFetch = 0
    /\ cache = [has |-> FALSE, data |-> << >>]
    /\ cacheAge = CACHE_TTL
    /\ status = [loading |-> TRUE, error |-> NoError, count |-> 0]
    /\ refreshes = << InFlight("direct", 1, ScaleUnit) >>
    /\ detail = "auto"
    /\ heatmapOn = FALSE
    /\ autoScaleRef = ScaleUnit
    /\ rafRef = 1
    /\ pendingRaf = 1
    /\ fpsSamples = << >>
    /\ elapsed = 0
    /\ fps = 0
    /\ lastRun = NoRun
    /\ lastTune = NoTune
    /\ popup = Null
    /\ zoom = Zoom
    /\ planeImgCache = NoImages

\* The bounds of the model, as guards.
MayStart == sinceFetch < UPDATE_INTERVAL \/ Len(refreshes) < MaxRefreshes
MayDraw(dt, maxRaf) == elapsed + dt <= MaxDelta /\ rafRef < maxRaf

Next ==
    \/ MayStart /\ IntervalFetch
    \/ \E b \in Viewports : MayStart /\ MoveEnd(b)
    \/ \E i \in 1..MaxRefreshes, k \in 1..Len(SmallSnapshots) :
           DirectResolve(i, SmallSnapshots[k])
    \/ \E i \in 1..MaxRefreshes : DirectReject(i)
    \/ \E i \in 1..MaxRefreshes : BackoffElapsed(i)
    \/ \E i \in 1..MaxRefreshes, k \in 1..Len(SmallSnapshots) :
           ProxyResolve(i, SmallSnapshots[k])
    \/ \E i \in 1..MaxRefreshes : ProxyReject(i)
    \/ AdvanceTime
    \/ \E dt \in FramePeriods : MayDraw(dt, MaxRaf) /\ Draw(dt)
    \/ \E d \in Details : rafRef < MaxRaf /\ SetDetail(d)
    \/ rafRef < MaxRaf /\ ToggleHeatmap
    \/ ResetAutotune
    \/ \E p \in ClickPoints : Click(p)

Spec == Init /\ [][Next]_vars

(***************************************************************************)
(* The controller followed over a long run of frames: the initial refresh  *)
(* is the only one, and the frame rate changes pace at most once per       *)
(* window.                                                                 *)
(***************************************************************************)
TuneSnapshots == {1, 3}

\* The samples of the window are some at one pace followed by some at another.
OnePaceChange(samples) ==
    \A i \in 1..Len(samples), j \in 1..Len(samples) :
        (i + 1 < j /\ samples[i] # samples[i + 1]) => samples[j] = samples[j - 1]

MayTune(dt) ==
    /\ MayDraw(dt, MaxTuneRaf)
    /\ OnePaceChange(Append(fpsSamples, CurrentFps(elapsed + dt)))

NextTune ==
    \/ \E k \in TuneSnapshots : DirectResolve(1, SmallSnapshots[k])
    \/ \E dt \in FramePeriods : MayTune(dt) /\ Draw(dt)
    \/ \E d \in Details : rafRef < MaxTuneRaf /\ SetDetail(d)
    \/ ResetAutotune

SpecTune == Init /\ [][NextTune]_vars

(***************************************************************************)
(* Heavy traffic: every response carries thousands of records, one refresh *)
(* is in flight at a time, it is answered before the clock moves on, and   *)
(* frames are slow.                                                        *)
(***************************************************************************)
LoadPeriods == {60}

NextLoad ==
    \/ Len(refreshes) = 0 /\ sinceFetch >= UPDATE_INTERVAL /\ IntervalFetch
    \/ \E n \in HeavySizes : DirectResolve(1, Response(HeavyStates(n)))
    \/ Len(refreshes) = 0 /\ sinceFetch < UPDATE_INTERVAL /\ AdvanceTime
    \/ \E dt \in LoadPeriods : MayDraw(dt, MaxLoadRaf) /\ Draw(dt)

SpecLoad == Init /\ [][NextLoad]_vars

(***************************************************************************)
(* The downsampling step alone, on every list length and cap of a small    *)
(* range: the parsed list and the cap are the inputs, Store is applied     *)
(* once.                                                                   *)
(***************************************************************************)
MaxSampleLen == 40
MaxSampleCap == 12

SampleList(n) == [i \in 1..n |-> [id |-> i, lat |-> 200, lon |-> 300, hdg |-> 0]]

InitSample ==
    /\ mounted = TRUE
    /\ bounds = Viewport(100, 0, 300, 400)
    /\ aircraftRef = << >>
    /\ sinceFetch = 0
    /\ cache = [has |-> FALSE, data |-> << >>]
    /\ cacheAge = CACHE_TTL
    /\ status = [loading |-> TRUE, error |-> NoError, count |-> 0]
    /\ refreshes = << >>
    /\ detail = "auto"
    /\ heatmapOn = FALSE
    /\ autoScaleRef = ScaleUnit
    /\ rafRef = 1
    /\ pendingRaf = 1
    /\ fpsSamples = << >>
    /\ elapsed = 0
    /\ fps = 0
    /\ lastRun \in {[next |-> SampleList(n), cap |-> c, startScale |-> ScaleUnit,
                      bounds |-> Viewport(100, 0, 300, 400)] :
                      n \in 0..MaxSampleLen, c \in 1..MaxSampleCap}
    /\ lastTune = NoTune
    /\ popup = Null
    /\ zoom = Zoom
    /\ planeImgCache = NoImages

SampleOnce ==
    /\ ~cache.has
    /\ Store(lastRun.next, lastRun.cap, lastRun.startScale)
    /\ UNCHANGED <<popup, mounted, bounds, zoom, sinceFetch, refreshes, detail, heatmapOn, drawVars>>

SpecSample == InitSample /\ [][SampleOnce]_vars

(***************************************************************************)
(* A slow upstream: heavy responses arrive late, later calls fail on every  *)
(* attempt and fall back to the in-memory cache, frames are slow.          *)
(***************************************************************************)
MaxStaleRaf == 3
StaleSizes == {2600}

NextStale ==
    \/ Len(refreshes) = 0 /\ sinceFetch >= UPDATE_INTERVAL /\ IntervalFetch
    \/ \E n \in StaleSizes : DirectResolve(1, Response(HeavyStates(n)))
    \/ DirectReject(1)
    \/ BackoffElapsed(1)
    \/ ProxyReject(1)
    \/ AdvanceTime
    \/ \E dt \in LoadPeriods : MayDraw(dt, MaxStaleRaf) /\ Draw(dt)

SpecStale == Init /\ [][NextStale]_vars

(***************************************************************************)
(* The aggregation followed: clustered traffic in the first view, traffic  *)
(* around the top and right edges of the canvas in the second, every       *)
(* detail level.                                                           *)
(***************************************************************************)
MaxGridRaf == 4

GridSnapshots ==
    << Response(<< Raw(11, 202, 98, 90), Raw(12, 200, 100, 180),
                   Raw(13, 201, 99, 270), Raw(14, 202, 98, 0) >>),
       Response(<< Raw(21, 310, 250, 10), Raw(22, 311, 251, 20), Raw(23, 321, 250, 30),
                   Raw(24, 320, 250, 40), Raw(25, 250, 421, 50), Raw(26, 250, 420, 60) >>) >>

NextGrid ==
    \/ \E k \in 1..Len(GridSnapshots) : DirectResolve(1, GridSnapshots[k])
    \/ \E b \in Viewports : MayStart /\ MoveEnd(b)
    \/ AdvanceTime
    \/ \E dt \in LoadPeriods : MayDraw(dt, MaxGridRaf) /\ Draw(dt)
    \/ \E d \in Details : rafRef < MaxGridRaf /\ SetDetail(d)

SpecGrid == Init /\ [][NextGrid]_vars

(***************************************************************************)
(* The hit test followed: entities in a row at 5, 30 and 50 px from a       *)
(* click, two entities at the same distance, clicks at and just beyond     *)
(* 20 px.                                                                  *)
(***************************************************************************)
ClickSnapshots ==
    << Response(<< Raw(31, 200, 100, 0), Raw(32, 200, 114, 0), Raw(33, 200, 122, 0) >>),
       Response(<< Raw(41, 200, 100, 0), Raw(42, 200, 104, 0) >>),
       Response(<< >>) >>

\* In point units: 5 px right of the first entity, 20 px and 20.5 px left of
\* it, 5 px right of the third.
HitPoints ==
    {[x |-> 510, y |-> 500], [x |-> 460, y |-> 500], [x |-> 459, y |-> 500],
     [x |-> 620, y |-> 500]}

NextClick ==
    \/ \E k \in 1..Len(ClickSnapshots) : DirectResolve(1, ClickSnapshots[k])
    \/ MayStart /\ IntervalFetch
    \/ AdvanceTime
    \/ \E p \in HitPoints : Click(p)

SpecClick == Init /\ [][NextClick]_vars

(***************************************************************************)
(* Teardown: the component unmounts at any moment of the initial refresh   *)
(* or of a later one, with frames running; what was in flight goes on.     *)
(***************************************************************************)
MaxTeardownRaf == 3
TeardownSnapshots == {1, 2, 6}

NextTeardown ==
    \/ MayStart /\ IntervalFetch
    \/ \E i \in 1..MaxRefreshes, k \in TeardownSnapshots : DirectResolve(i, SmallSnapshots[k])
    \/ \E i \in 1..MaxRefreshes : DirectReject(i)
    \/ \E i \in 1..MaxRefreshes : BackoffElapsed(i)
    \/ \E i \in 1..MaxRefreshes, k \in TeardownSnapshots : ProxyResolve(i, SmallSnapshots[k])
    \/ \E i \in 1..MaxRefreshes : ProxyReject(i)
    \/ AdvanceTime
    \/ \E dt \in LoadPeriods : MayDraw(dt, MaxTeardownRaf) /\ Draw(dt)
    \/ Unmount

SpecTeardown == Init /\ [][NextTeardown]_vars

(***************************************************************************)
(* The sample window followed from where a run of frames has left it: the   *)
(* initial refresh has stored two entities, the draw effect has run the    *)
(* frames of one of the runs below on them since it started, under one     *)
(* detail level, and goes on.  Frame requests are numbered from the one    *)
(* pending as the run is taken up.                                         *)
(***************************************************************************)
MaxWindowRaf == 3
WindowPeriods == {20, 50, 125}     \* ms between two frame callbacks

\* The frame deltas of a run, in ms: no frame yet; two slow frames; one frame
\* at 20 FPS; a full window of 3 fast frames and 27 at 20 FPS; a window one
\* short of full; eleven slow frames.
WindowRuns ==
    << << >>,
       << 125, 125 >>,
       << 50 >>,
       [i \in 1..WindowSize |-> IF i <= 3 THEN 20 ELSE 50],
       [i \in 1..(WindowSize - 1) |-> IF i <= 3 THEN 20 ELSE 50],
       [i \in 1..11 |-> 125] >>

\* The window after the first n frames of a run, from the start of the
\* effect (line 244): no run is longer than the window, so every sample
\* pushed (line 335) is still in it.
WindowAfter(deltas, n) == [i \in 1..n |-> CurrentFps(deltas[i])]

\* The multiplier after the first n frames of a run under detail level d,
\* from 1 (line 52): lines 340-348, frame after frame.
RECURSIVE ScaleAfter(_, _, _)
ScaleAfter(deltas, n, d) ==
    IF n = 0
    THEN ScaleUnit
    ELSE Autotune(d, WindowAfter(deltas, n), ScaleAfter(deltas, n - 1, d))

\* The list the initial refresh stores: the first small snapshot under the
\* initial view.
WindowList == ParseStates(SmallSnapshots[1], Viewport(100, 0, 300, 400))

InitWindow ==
    \E r \in 1..Len(WindowRuns), d \in Details :
        LET deltas == WindowRuns[r]
            n == Len(deltas)
            samples == WindowAfter(deltas, n)
            scale == ScaleAfter(deltas, n, d)
        IN /\ mounted = TRUE
           /\ bounds = Viewport(100, 0, 300, 400)
           /\ zoom = Zoom
           /\ aircraftRef = WindowList
           /\ sinceFetch = 0
           /\ cache = [has |-> TRUE, data |-> WindowList]
           /\ cacheAge = 0
           /\ status = [loading |-> FALSE, error |-> NoError, count |-> Len(WindowList)]
           /\ refreshes = << >>
           /\ detail = d
           /\ heatmapOn = FALSE
           /\ autoScaleRef = scale
           /\ rafRef = 1
           /\ pendingRaf = 1
           /\ fpsSamples = samples
           /\ elapsed = 0
           /\ fps = IF n = 0 THEN 0 ELSE RoundAvg(samples)
           /\ lastRun = [next |-> WindowList, cap |-> MaxInView(ScaleUnit),
                         startScale |-> ScaleUnit, bounds |-> Viewport(100, 0, 300, 400)]
           /\ lastTune = IF n = 0
                         THEN NoTune
                         ELSE [band |-> Band(samples), scale |-> scale,
                               reset |-> FALSE, aircraft |-> WindowList,
                               gridSize |-> GridSize(d, Zoom), zoom |-> Zoom,
                               drawnAt |-> ScaleAfter(deltas, n - 1, d),
                               sprite |-> FALSE]
           /\ popup = Null
           /\ planeImgCache = IF n = 0
                              THEN NoImages
                              ELSE CreatePlaneImage(NoImages, SpriteSize(Zoom))

NextWindow ==
    \E dt \in WindowPeriods : rafRef < MaxWindowRaf /\ Draw(dt)

SpecWindow == InitWindow /\ [][NextWindow]_vars

(***************************************************************************)
(* The cell size followed over the zoom range of the map (lines 81-82),    *)
(* every detail level and multipliers from 1 to 8: the runs of frames      *)
(* above, continued with zooms, detail changes, resets and slow frames.    *)
(* The layer projection stays that of level Zoom: these runs are followed  *)
(* for the cell size, not for the cells.                                   *)
(***************************************************************************)
MaxZoomRaf == 3
Zooms == minZoom..MAX_ZOOM

NextZoom ==
    \/ \E z \in Zooms : ZoomEnd(z)
    \/ \E dt \in LoadPeriods : rafRef < MaxZoomRaf /\ Draw(dt)
    \/ \E d \in Details : rafRef < MaxZoomRaf /\ SetDetail(d)
    \/ ResetAutotune

SpecZoom == InitWindow /\ [][NextZoom]_vars

(***************************************************************************)
(* The rendering followed: one refresh, answered with the two entities of  *)
(* one cell, the first with no heading (next to a record outside the view  *)
(* and one with no position), or with clusters of entities at one point:   *)
(* 21 and 1, or 6, 5 and 10, or 20 and 1;                                  *)
(* every detail level, the heatmap on and off, the sprite image loading    *)
(* between two frames or not at all.                                       *)
(***************************************************************************)
MaxRenderRaf == 5

Cluster(id, n, lat, lon, hdg) == [i \in 1..n |-> Raw(id + i, lat, lon, hdg + i)]

RenderSnapshots ==
    << Response(<< Raw(1, 200, 102, Null), Raw(2, 200, 103, 180),
                   Raw(3, 350, 102, 0), Raw(4, Null, 102, 0) >>),
       Response(Cluster(100, 21, 150, 200, 44) \o << Raw(300, 120, 40, Null) >>),
       Response(Cluster(100, 6, 150, 200, 44) \o Cluster(200, 5, 250, 300, 99)
                    \o Cluster(300, 10, 120, 40, 199)),
       Response(Cluster(100, 20, 150, 200, 44) \o << Raw(300, 120, 40, 270) >>) >>

NextRender ==
    \/ \E k \in 1..Len(RenderSnapshots) : DirectResolve(1, RenderSnapshots[k])
    \/ \E dt \in LoadPeriods : MayDraw(dt, MaxRenderRaf) /\ Draw(dt)
    \/ \E d \in Details : rafRef < MaxRenderRaf /\ SetDetail(d)
    \/ rafRef < MaxRenderRaf /\ ToggleHeatmap
    \/ \E size \in planeImgCache.created : ImageLoads(size)

SpecRender == Init /\ [][NextRender]_vars

(***************************************************************************)
(* The sprite followed from frame to frame: one refresh, answered with a   *)
(* few entities, and frames before and after the image has loaded.         *)
(***************************************************************************)
MaxSpriteRaf == 5

SpriteSnapshots == << RenderSnapshots[1], GridSnapshots[1], GridSnapshots[2] >>

NextSprite ==
    \/ \E k \in 1..Len(SpriteSnapshots) : DirectResolve(1, SpriteSnapshots[k])
    \/ \E dt \in LoadPeriods : MayDraw(dt, MaxSpriteRaf) /\ Draw(dt)
    \/ \E d \in Details : rafRef < MaxSpriteRaf /\ SetDetail(d)
    \/ rafRef < MaxSpriteRaf /\ ToggleHeatmap
    \/ \E size \in planeImgCache.created : ImageLoads(size)

SpecSprite == Init /\ [][NextSprite]_vars

(***************************************************************************)
(* Overlapping refreshes followed: every outcome of every attempt of two   *)
(* calls in flight, under auto detail with slow frames only and no reset,  *)
(* so that the multiplier never falls and the multiplier a call read as    *)
(* it started (startScale) orders the calls by their start.                *)
(***************************************************************************)
MaxOrderRaf == 3

NextOrder ==
    \/ MayStart /\ IntervalFetch
    \/ \E i \in 1..MaxRefreshes, k \in TuneSnapshots : DirectResolve(i, SmallSnapshots[k])
    \/ \E i \in 1..MaxRefreshes : DirectReject(i)
    \/ \E i \in 1..MaxRefreshes : BackoffElapsed(i)
    \/ \E i \in 1..MaxRefreshes, k \in TuneSnapshots : ProxyResolve(i, SmallSnapshots[k])
    \/ \E i \in 1..MaxRefreshes : ProxyReject(i)
    \/ AdvanceTime
    \/ \E dt \in LoadPeriods : MayDraw(dt, MaxOrderRaf) /\ Draw(dt)

SpecOrder == Init /\ [][NextOrder]_vars

(***************************************************************************)
(* The draw loop followed through its restarts: detail changes and heatmap *)
(* toggles in any order between frames, and the teardown at any point.     *)
(***************************************************************************)
MaxLoopRaf == 6

NextLoop ==
    \/ \E k \in TuneSnapshots : DirectResolve(1, SmallSnapshots[k])
    \/ \E dt \in LoadPeriods : MayDraw(dt, MaxLoopRaf) /\ Draw(dt)
    \/ \E d \in Details : rafRef < MaxLoopRaf /\ SetDetail(d)
    \/ rafRef < MaxLoopRaf /\ ToggleHeatmap
    \/ Unmount

SpecLoop == Init /\ [][NextLoop]_vars

(***************************************************************************)
(* The controller followed to both ends of its range: under auto detail,   *)
(* runs of slow frames from the multiplier at 1, a restart of the effect   *)
(* by the heatmap toggle (the window starts again, the multiplier stays)   *)
(* and runs of fast frames after it.  The runs are shorter than the        *)
(* window, so that the window of a frame is the samples up to it.          *)
(***************************************************************************)
MaxRampRaf == 25

MayRamp(dt) ==
    /\ MayDraw(dt, MaxRampRaf)
    /\ OnePaceChange(Append(fpsSamples, CurrentFps(elapsed + dt)))

NextRamp ==
    \/ \E k \in TuneSnapshots : DirectResolve(1, SmallSnapshots[k])
    \/ \E dt \in FramePeriods : MayRamp(dt) /\ Draw(dt)
    \/ rafRef < MaxRampRaf /\ ToggleHeatmap

SpecRamp == Init /\ [][NextRamp]_vars

(***************************************************************************)
(* Properties.                                                             *)
(***************************************************************************)
\* A call in flight ends on this step.
RefreshEnds == Len(refreshes') < Len(refreshes)

\* A frame callback runs on this step.
FrameRuns == \E dt \in FramePeriods : Draw(dt)

\* C1: in every reachable state, whatever the refresh outcomes were, no
\* entity of the stored list has a null or absent latitude or longitude.
C1_NoNullPosition ==
    \A i \in 1..Len(aircraftRef) :
        aircraftRef[i].lat # Null /\ aircraftRef[i].lon # Null

\* A response that carried records without a position has been filtered
\* and stored: two entities are on display.
C1_Witness == Len(aircraftRef) = 2 /\ ~status.loading /\ status.error = NoError

\* C2: no step of a refresh that fails changes the stored list: not a failed
\* direct attempt, not its backoff, not the end of the call in the error
\* status (proxy failed with no fresh cache, or parsing threw).
C2_FailureKeepsList ==
    [][((\E i \in 1..MaxRefreshes : DirectReject(i) \/ BackoffElapsed(i))
        \/ (RefreshEnds /\ status'.error = FetchFailed))
       => aircraftRef' = aircraftRef]_vars

\* A refresh has failed while entities were stored, and they are still there.
C2_Witness == status.error = FetchFailed /\ Len(aircraftRef) > 0

\* C3: the stored list is always the initial empty list or the whole output
\* of the last filter run (its parsed list downsampled under its cap), and
\* no frame, reset or settings change modifies it.
C3_WholesaleReplace ==
    /\ [](aircraftRef = Downsample(lastRun.next, lastRun.cap))
    /\ [][(FrameRuns \/ ResetAutotune \/ ToggleHeatmap \/ (\E p \in ClickPoints : Click(p))
           \/ (\E d \in Details : SetDetail(d)))
          => aircraftRef' = aircraftRef]_vars

\* A frame has drawn a stored list of two entities.
C3_Witness == Len(aircraftRef) = 2 /\ Len(fpsSamples) > 0

\* C4: in every reachable state the scale multiplier lies in [1, 8].
C4_ScaleInRange ==
    autoScaleRef >= ScaleUnit /\ autoScaleRef <= MaxScale * ScaleUnit

\* The multiplier has been driven to the upper clamp.
C4_Witness == autoScaleRef = MaxScale * ScaleUnit /\ Len(fpsSamples) >= 10

\* C5 as stated: in auto mode, from one measuring frame to the next, the
\* multiplier does not decrease while the window mean stays below 22 and
\* does not increase while it stays above 35.
C5_MonotoneBetweenFrames ==
    [][(FrameRuns /\ detail = "auto" /\ lastTune'.band = lastTune.band)
       => /\ lastTune.band = "low" => autoScaleRef' >= lastTune.scale
          /\ lastTune.band = "high" => autoScaleRef' <= lastTune.scale]_vars

\* C5 amended: the same, except that below 22 the multiplier may be lower
\* than after the previous frame when Reset Autotune ran between the two.
C5_MonotoneUnlessReset ==
    [][(FrameRuns /\ detail = "auto" /\ lastTune'.band = lastTune.band)
       => /\ (lastTune.band = "low" /\ ~lastTune.reset)
                 => autoScaleRef' >= lastTune.scale
          /\ lastTune.band = "high" => autoScaleRef' <= lastTune.scale]_vars

\* Two frames in a row measured a mean below 22 in auto mode with no reset
\* between them, and the multiplier went up twice.
C5_Witness ==
    /\ detail = "auto"
    /\ lastTune.band = "low" /\ ~lastTune.reset
    /\ Len(fpsSamples) = 2
    /\ autoScaleRef = AutoTuneUp(AutoTuneUp(ScaleUnit))

\* C6 as stated: whenever the detail level is high or low the scale
\* multiplier is 1.
C6_ManualScaleIsOne ==
    detail \in {"high", "low"} => autoScaleRef = ScaleUnit

\* C7 as stated: in auto mode every frame callback, with or without stored
\* entities, pushes exactly one sample, measured over the time since the
\* callback before it.
C7_OneSamplePerFrame ==
    [][\A dt \in FramePeriods :
           (Draw(dt) /\ detail = "auto")
               => fpsSamples' = PushSample(fpsSamples, CurrentFps(dt))]_vars

\* C8: with n the length of the parsed list of the last filter run and cap its
\* admission cap: when n > cap the stored list is the records at the
\* zero-based indices 0, k, 2k, ... of the parsed list, in order, with
\* k = ceil(n / cap), ceil(n / k) of them; otherwise it is the parsed list.
C8_EveryKth ==
    LET next == lastRun.next
        n == Len(next)
        cap == lastRun.cap
    IN IF n > cap
       THEN LET k == CHOOSE f \in 1..n : (f - 1) * cap < n /\ n <= f * cap
                size == CHOOSE m \in 1..n : (m - 1) * k < n /\ n <= m * k
            IN /\ Len(aircraftRef) = size
               /\ \A j \in 1..size : aircraftRef[j] = next[(j - 1) * k + 1]
       ELSE aircraftRef = next

\* A parsed list more than twice as long as the cap has been stored (k = 3).
C8_Witness == lastRun.cap > 0 /\ Len(lastRun.next) > 2 * lastRun.cap

\* C9: when the parsed list is longer than the cap (cap >= 1), the size s of
\* the stored list satisfies cap / 2 < s <= cap.
C9_SizeWithinHalfCap ==
    (cache.has /\ Len(lastRun.next) > lastRun.cap)
        => /\ lastRun.cap < 2 * Len(aircraftRef)
           /\ Len(aircraftRef) <= lastRun.cap

\* A list more than three times as long as the cap has been downsampled.
C9_Witness == cache.has /\ Len(lastRun.next) > 3 * lastRun.cap

\* c = max(200, floor(3000 / scale)), stated without division.
CapMatches(c, scale) ==
    /\ c >= MinInView
    /\ c = MinInView \/ c * scale <= BASE_MAX * ScaleUnit
    /\ (c + 1) * scale > BASE_MAX * ScaleUnit

\* C10: the cap a refresh applies is max(200, floor(3000 / scale)) for the
\* value the scale multiplier has on the step that filters its response.
C10_CapAtFilterTime ==
    [][(RefreshEnds /\ status'.error = NoError)
       => CapMatches(lastRun'.cap, autoScaleRef)]_vars

\* A response has been filtered under a cap that is not the one the scale
\* of the moment its refresh started would give: the scale moved in between.
C10_Witness ==
    /\ lastRun.cap > 0
    /\ ~CapMatches(lastRun.cap, lastRun.startScale)

\* C11 as stated: the stored list never has more than 3000 entities, and
\* right after each commit (a successful refresh or a cache fallback) its
\* length is at most the admission cap max(200, floor(3000 / scale)) of that
\* moment.
C11_BoundedByCap ==
    /\ [](Len(aircraftRef) <= BASE_MAX)
    /\ [][(RefreshEnds /\ status'.error = NoError)
          => Len(aircraftRef') <= MaxInView(autoScaleRef)]_vars

\* The entities of the last frame that the claims call on-screen, by index,
\* and the pixel and key of each.
FrameOnScreen ==
    {i \in 1..Len(lastTune.aircraft) :
        LET px == PixelOf(lastTune.aircraft[i])
        IN /\ 0 - Margin <= px.x /\ px.x <= MapSize.x + Margin
           /\ 0 - Margin <= px.y /\ px.y <= MapSize.y + Margin}

FrameKey(i) ==
    LET px == PixelOf(lastTune.aircraft[i])
    IN <<px.x \div lastTune.gridSize, px.y \div lastTune.gridSize>>

\* C12: in every frame the occupancy counts of the cells add up to the number
\* of stored entities whose pixel lies within the 50 px margin of the
\* canvas; each of them is counted in exactly one cell, the one keyed by
\* floor(x / gridSize), floor(y / gridSize); the others are counted in none.
C12_CountsPartitionOnScreen ==
    LET cells == FrameCells
    IN /\ SumSeq([c \in 1..Len(cells) |-> cells[c].count]) = Cardinality(FrameOnScreen)
       /\ \A c, d \in 1..Len(cells) : cells[c].key = cells[d].key => c = d
       /\ \A c \in 1..Len(cells) :
              cells[c].count = Cardinality({i \in FrameOnScreen : FrameKey(i) = cells[c].key})
       /\ \A i \in FrameOnScreen : \E c \in 1..Len(cells) : cells[c].key = FrameKey(i)

\* A frame has aggregated a list of which some entities share a cell and
\* some lie outside the margin.
C12_Witness ==
    /\ Cardinality(FrameOnScreen) < Len(lastTune.aircraft)
    /\ \E c \in 1..Len(FrameCells) : FrameCells[c].count >= 2

\* C13: the representative and the drawing position of every occupied cell
\* are those of the first entity, in stored-list order, that maps to it.
C13_FirstIsRepresentative ==
    \A c \in 1..Len(FrameCells) :
        LET members == {i \in FrameOnScreen : FrameKey(i) = FrameCells[c].key}
            first == CHOOSE i \in members : \A j \in members : i <= j
        IN /\ members # {}
           /\ FrameCells[c].rep = lastTune.aircraft[first]
           /\ FrameCells[c].x = PixelOf(lastTune.aircraft[first]).x
           /\ FrameCells[c].y = PixelOf(lastTune.aircraft[first]).y

\* A frame under high detail has put the second and third entity of the list
\* in one cell, apart from the first: the second represents it.
C13_Witness ==
    \E c \in 1..Len(FrameCells) :
        /\ FrameCells[c].count = 2
        /\ FrameCells[c].rep = lastTune.aircraft[2]

\* C14: a refresh starts only when at least 10000 ms have passed since the
\* start before it, and its start is the new last-fetch time; a timer or
\* move/zoom-end trigger that comes sooner starts no request and leaves the
\* stored list, the status and the last-fetch time as they are.
C14_StartsApart ==
    [][/\ Len(refreshes') > Len(refreshes)
            => (sinceFetch >= UPDATE_INTERVAL /\ sinceFetch' = 0)
       /\ (sinceFetch < UPDATE_INTERVAL /\ (IntervalFetch \/ \E b \in Viewports : MoveEnd(b)))
            => UNCHANGED <<aircraftRef, status, sinceFetch, refreshes>>]_vars

\* A second refresh has just started while the first is still in flight.
C14_Witness == Len(refreshes) = 2 /\ sinceFetch = 0

\* C15 as stated: after teardown no step of a refresh that was pending
\* modifies the stored list or the status.
C15_DiscardedAfterTeardown ==
    [][~mounted => (aircraftRef' = aircraftRef /\ status' = status)]_vars

\* C16: teardown cancels the pending frame request: after it no frame
\* request is waiting and the draw function never runs again.
C16_NoFrameAfterTeardown ==
    /\ [](~mounted => pendingRaf = 0)
    /\ [][~mounted => ~FrameRuns]_vars

\* Torn down after frames have run.
C16_Witness == ~mounted /\ rafRef > 1

\* C17: a click opens the popup of a stored entity of minimum squared pixel
\* distance to it when that minimum is at most 400, and leaves no popup open
\* when the list is empty or every entity is farther than 20 px.
C17_NearestWithinThreshold ==
    [][\A p \in HitPoints :
          Click(p) =>
              LET n == Len(aircraftRef)
                  far(i) == Dist(aircraftRef[i], p) > ClickThreshold * PointUnit * PointUnit
              IN IF \A i \in 1..n : far(i)
                 THEN popup' = Null
                 ELSE \E i \in 1..n :
                          /\ \A j \in 1..n : Dist(aircraftRef[i], p) <= Dist(aircraftRef[j], p)
                          /\ popup' = aircraftRef[i].id]_vars

\* The popup of the third entity of the row is open: the nearest was not the
\* first of the list.
C17_Witness == popup = 33

\* The padding the viewport is said to carry: 0.5 degrees, in tenths.
Padding == 5
Padded(b) == Viewport(b.south - Padding, b.west - Padding, b.north + Padding, b.east + Padding)
InRectangle(b, lat, lon) ==
    lat >= b.south /\ lat <= b.north /\ lon >= b.west /\ lon <= b.east

\* The call i gets the response res, by either route, and filters it.
Filters(i, res) ==
    /\ RefreshEnds
    /\ status'.error = NoError
    /\ DirectResolve(i, res) \/ ProxyResolve(i, res)

\* C18 as stated: a record with a non-null position within 0.5 degrees of
\* the visible bounds is admitted into the filter result.
C18_PaddedRecordsAdmitted ==
    [][\A i \in 1..MaxRefreshes, k \in 1..Len(SmallSnapshots) :
          Filters(i, SmallSnapshots[k]) =>
              \A r \in 1..Len(StatesOf(SmallSnapshots[k])) :
                  LET s == StatesOf(SmallSnapshots[k])[r]
                  IN (s.lat # Null /\ s.lon # Null /\ InRectangle(Padded(bounds), s.lat, s.lon))
                         => \E e \in 1..Len(lastRun'.next) : lastRun'.next[e].id = s.id]_vars

\* C19: every entity a filter run puts out lies inside the bounds the run
\* read, expanded by 0.5 degrees on each side.
C19_OutputWithinPadded ==
    \A e \in 1..Len(lastRun.next) :
        InRectangle(Padded(lastRun.bounds), lastRun.next[e].lat, lastRun.next[e].lon)

\* A run under the second view has put out the one record of the first
\* snapshot that lies in it.
C19_Witness ==
    /\ lastRun.bounds = Viewport(200, 200, 500, 600)
    /\ Len(lastRun.next) = 1 /\ lastRun.next[1].id = 2 /\ lastRun.next[1].lat = 250

\* C20 as stated: after a failed refresh that follows a successful one the
\* count in the status is the size of the last successfully filtered set.
C20_CountSurvivesFailure ==
    [][(RefreshEnds /\ status'.error = FetchFailed /\ lastRun # NoRun)
       => status'.count = Len(lastRun.next)]_vars

\* A response of unexpected shape: no body, no states array, or a states
\* array with a null record in it.
Malformed(res) == ~res.body \/ ~res.hasStates \/ ParseThrows(res)

\* C21 as stated: a refresh whose response has an unexpected shape completes
\* with no error status, and its filter result is the valid records of the
\* response only (none when there is no states array).
C21_UnexpectedShapeIsEmpty ==
    [][\A i \in 1..MaxRefreshes, k \in 1..Len(SmallSnapshots) :
          (/\ RefreshEnds
           /\ mounted
           /\ Malformed(SmallSnapshots[k])
           /\ DirectResolve(i, SmallSnapshots[k]) \/ ProxyResolve(i, SmallSnapshots[k]))
              => /\ status'.error = NoError
                 /\ lastRun'.next = ParseStates(SmallSnapshots[k], bounds)
                 /\ aircraftRef' = Downsample(lastRun'.next, lastRun'.cap)]_vars

\* C22: the reset action sets the scale multiplier to 1 at once under every
\* detail level and leaves the FPS sample window, the stored list and the
\* detail level as they are.
C22_ResetOnlyScale ==
    [][ResetAutotune
       => /\ autoScaleRef' = ScaleUnit
          /\ fpsSamples' = fpsSamples
          /\ aircraftRef' = aircraftRef
          /\ detail' = detail]_vars

\* A reset has brought the multiplier back to 1 from what the last frame
\* left; the window and the stored list are still there.
C22_Witness ==
    /\ lastTune.reset /\ lastTune.scale > ScaleUnit
    /\ autoScaleRef = ScaleUnit
    /\ Len(fpsSamples) >= 2 /\ Len(aircraftRef) > 0

\* The mean of a window lies in the closed band [22, 35].
MeanInDeadZone(samples) ==
    /\ LowFps * FpsUnit * Len(samples) <= SumSeq(samples)
    /\ SumSeq(samples) <= HighFps * FpsUnit * Len(samples)

\* C23: in auto mode a frame whose window mean lies in 22 <= mean <= 35
\* leaves the scale multiplier as it was.
C23_DeadZoneKeepsScale ==
    [][\A dt \in WindowPeriods :
          (Draw(dt) /\ detail = "auto" /\ aircraftRef # << >> /\ MeanInDeadZone(fpsSamples'))
              => autoScaleRef' = autoScaleRef]_vars

\* A frame in auto mode has measured a mean of exactly 22 with the
\* multiplier above 1, and has left it there.
C23_Witness ==
    /\ detail = "auto" /\ rafRef > 1
    /\ SumSeq(fpsSamples) = LowFps * FpsUnit * Len(fpsSamples)
    /\ lastTune.drawnAt > ScaleUnit /\ autoScaleRef = lastTune.drawnAt

\* C24: the window never holds more than 30 samples; a frame pushes its
\* sample at the end, and the push of a 31st evicts the oldest; the FPS
\* shown and the adjustment of the multiplier are those of the mean of the
\* samples then in the window.
C24_WindowOfThirty ==
    /\ [](Len(fpsSamples) <= WindowSize)
    /\ [][\A dt \in WindowPeriods :
             (Draw(dt) /\ aircraftRef # << >>)
                 => /\ fpsSamples' = Append(IF Len(fpsSamples) = WindowSize
                                            THEN Tail(fpsSamples)
                                            ELSE fpsSamples,
                                            CurrentFps(elapsed + dt))
                    /\ 2 * FpsUnit * Len(fpsSamples') * fps' - FpsUnit * Len(fpsSamples')
                           <= 2 * SumSeq(fpsSamples')
                    /\ 2 * SumSeq(fpsSamples')
                           < 2 * FpsUnit * Len(fpsSamples') * fps' + FpsUnit * Len(fpsSamples')
                    /\ detail = "auto" =>
                           autoScaleRef' =
                               IF SumSeq(fpsSamples') < LowFps * FpsUnit * Len(fpsSamples')
                               THEN AutoTuneUp(autoScaleRef)
                               ELSE IF SumSeq(fpsSamples') > HighFps * FpsUnit * Len(fpsSamples')
                                    THEN AutoTuneDown(autoScaleRef)
                                    ELSE autoScaleRef]_vars

\* A slow frame on a full window has evicted the fast sample at its head,
\* and the mean of the thirty samples left has fallen below 22: the
\* multiplier went up, which the mean of all thirty-one would not have done.
C24_Witness ==
    /\ Len(fpsSamples) = WindowSize
    /\ fpsSamples[WindowSize] = CurrentFps(125) /\ fpsSamples[3] = CurrentFps(50)
    /\ rafRef = 2 /\ detail = "auto"
    /\ lastTune.drawnAt = ScaleUnit /\ autoScaleRef = AutoTuneUp(ScaleUnit)

\* A frame callback of a slow run gets past the empty-list return on this step.
SlowFrameDraws == aircraftRef # << >> /\ \E dt \in LoadPeriods : Draw(dt)

\* C25: at every zoom level of the map's range 2..10 the cell size of a
\* frame is max(8, floor(48 / zoom)) under auto detail, twice that under
\* low, max(4, floor(that / 2)) under high; it is at least 4, and at one
\* zoom level low >= auto >= high.
C25_GridSizePolicy ==
    /\ [](/\ zoom \in Zooms
          /\ GridSize("low", zoom) >= GridSize("auto", zoom)
          /\ GridSize("auto", zoom) >= GridSize("high", zoom))
    /\ [][SlowFrameDraws
          => LET base == Max(8, 48 \div zoom)
             IN /\ lastTune'.gridSize >= 4
                /\ detail = "auto" => lastTune'.gridSize = base
                /\ detail = "low" => lastTune'.gridSize = 2 * base
                /\ detail = "high" => lastTune'.gridSize = Max(4, base \div 2)]_vars

\* Frames have drawn at the far ends of the policy: the last one at zoom 10
\* under high detail, with cells of 4 px.
C25_Witness ==
    /\ lastTune.band # "none" /\ detail = "high"
    /\ lastTune.zoom = MAX_ZOOM /\ lastTune.gridSize = 4

C27_ScaleCoarsensGrid ==
    [][(/\ SlowFrameDraws /\ detail = "auto"
        /\ autoScaleRef = ScaleUnit
        /\ lastTune.band # "none" /\ lastTune.zoom = zoom
        /\ lastTune.drawnAt = MaxScale * ScaleUnit)
       => lastTune.gridSize > lastTune'.gridSize]_vars

\* The glyph calls and the label calls among the calls of the last frame.
IsGlyph(call) == call.op \in {"drawImage", "drawPlane"}
FrameGlyphs == SelectSeq(FrameDrawCalls, IsGlyph)
FrameLabels == SelectSeq(FrameDrawCalls, LAMBDA call : call.op = "fillText")

\* C28 as stated: every frame clears the entire drawing surface before any
\* other draw call of that frame; a frame with an empty list issues the
\* clear alone and requests the next frame.
C28_ClearsSurfaceFirst ==
    [][FrameRuns
       => /\ FrameDrawCalls'[1].op = "clearRect"
          /\ Covers(DeviceRect(FrameDrawCalls'[1], Transform), Surface)
          /\ \A i \in 2..Len(FrameDrawCalls') : FrameDrawCalls'[i].op # "clearRect"
          /\ aircraftRef = << >>
                 => (Len(FrameDrawCalls') = 1 /\ pendingRaf' = rafRef' /\ pendingRaf' # 0)]_vars

\* The occupancy band of a count: up to 5, 6 to 20, above 20.
OccupancyBand(count) == IF count <= 5 THEN 1 ELSE IF count <= 20 THEN 2 ELSE 3

\* C29 as stated: in every frame two cells are drawn with the same glyph
\* style exactly when their counts are in the same occupancy band.
C29_StyleByBand ==
    \A c, d \in 1..Len(FrameCells) :
        (OccupancyBand(FrameCells[c].count) = OccupancyBand(FrameCells[d].count))
            <=> (FrameGlyphs[c].style = FrameGlyphs[d].style)

\* The number a decimal text reads as.
RECURSIVE DecimalValue(_)
DecimalValue(text) ==
    IF text = << >>
    THEN 0
    ELSE 10 * DecimalValue(SubSeq(text, 1, Len(text) - 1))
             + (CHOOSE v \in 0..9 : DecimalDigits[v + 1] = text[Len(text)])

\* C30: a frame draws one glyph per occupied cell, at the cell's position
\* and turned to the heading of its representative (0 when the record had
\* none), and a label exactly for the cells that count more than one,
\* right after the cell's glyph, whose text is the count in decimal.
C30_GlyphAndLabelPerCell ==
    LET labelled == SelectSeq(FrameCells, LAMBDA cell : cell.count > 1)
    IN /\ Len(FrameGlyphs) = Cardinality({FrameKey(i) : i \in FrameOnScreen})
       /\ \A c \in 1..Len(FrameGlyphs) :
              /\ FrameGlyphs[c].x = FrameCells[c].x /\ FrameGlyphs[c].y = FrameCells[c].y
              /\ FrameGlyphs[c].angle = FrameCells[c].rep.hdg
              /\ FrameGlyphs[c].angle \in 0..359
       /\ Len(FrameLabels) = Len(labelled)
       /\ \A k \in 1..Len(FrameLabels) :
              /\ DecimalValue(FrameLabels[k].text) = labelled[k].count
              /\ FrameLabels[k].text[1] # "0"
              /\ FrameLabels[k].x = labelled[k].x /\ FrameLabels[k].y = labelled[k].y + 16
       /\ \A i \in 1..Len(FrameDrawCalls) :
              FrameDrawCalls[i].op = "fillText"
                  => /\ IsGlyph(FrameDrawCalls[i - 1])
                     /\ FrameDrawCalls[i - 1].x = FrameDrawCalls[i].x
                     /\ FrameDrawCalls[i - 1].y + 16 = FrameDrawCalls[i].y

\* A frame has drawn the two entities of one cell, of which the first came
\* with no heading: one glyph at heading 0 and the label "2".
C30_Witness ==
    /\ Len(lastTune.aircraft) = 2 /\ lastTune.aircraft[1].id = 1
    /\ lastRun.next[1].id = 1
    /\ Len(FrameGlyphs) = 1 /\ FrameGlyphs[1].angle = 0
    /\ Len(FrameLabels) = 1 /\ FrameLabels[1].text = << "2" >>

\* The heat glows among the calls of the last frame, and where they are.
FrameGlows == SelectSeq(FrameDrawCalls, LAMBDA call : call.op = "arc")
GlowAt == {i \in 1..Len(FrameDrawCalls) : FrameDrawCalls[i].op = "arc"}

\* C31: with the heatmap on, a frame draws one glow per occupied cell, at
\* the cell, of intensity min(1, count / 15) (in fifteenths: the count up to
\* 15, 15 above), and every glow comes before every glyph and label of the
\* frame; with the heatmap off a frame draws no glow.
C31_HeatGlowPerCell ==
    /\ heatmapOn
           => /\ Len(FrameGlows) = Cardinality({FrameKey(i) : i \in FrameOnScreen})
              /\ \A c \in 1..Len(FrameGlows) :
                     /\ FrameGlows[c].x = FrameCells[c].x /\ FrameGlows[c].y = FrameCells[c].y
                     /\ FrameGlows[c].h = (IF FrameCells[c].count >= 15
                                           THEN 15 ELSE FrameCells[c].count)
              /\ \A i \in GlowAt, j \in 1..Len(FrameDrawCalls) :
                     (IsGlyph(FrameDrawCalls[j]) \/ FrameDrawCalls[j].op = "fillText")
                         => i < j
    /\ ~heatmapOn => GlowAt = {}

\* A frame with the heatmap on has drawn a cell of 21 entities at full
\* intensity and a cell of one entity at a fifteenth.
C31_Witness ==
    /\ heatmapOn /\ Len(FrameGlows) = 2
    /\ FrameCells[1].count = 21 /\ FrameGlows[1].h = 15
    /\ FrameCells[2].count = 1 /\ FrameGlows[2].h = 1
    /\ Len(FrameGlyphs) = 2

\* A frame callback runs on this step and sees the list, the zoom and (an
\* effect restart clears the record of the last frame) the settings the
\* last frame saw.
FrameRunsAgain ==
    /\ lastTune.band # "none"
    /\ aircraftRef # << >> /\ lastTune.aircraft = aircraftRef
    /\ lastTune.zoom = zoom
    /\ FrameRuns

\* C32 as stated: two frames drawn with the same stored list, the same view
\* and the same settings issue the same sequence of draw calls, whatever
\* happened between them.
C32_SameInputsSameCalls ==
    [][FrameRunsAgain => FrameDrawCalls' = FrameDrawCalls]_vars

\* One step of a call in flight, from r to q: a direct request fails into
\* the backoff wait of its attempt; a wait ends in the next direct request
\* or, after the third, in the proxy request; nothing else moves a call.
CallSteps(r, q) ==
    /\ q.startScale = r.startScale
    /\ \/ r.pc = "direct" /\ q.pc = "backoff" /\ q.attempt = r.attempt
       \/ r.pc = "backoff" /\ r.attempt < 3 /\ q.pc = "direct" /\ q.attempt = r.attempt + 1
       \/ r.pc = "backoff" /\ r.attempt = 3 /\ q.pc = "proxy" /\ q.attempt = 3

\* C33: a refresh has one request outstanding at a time; its direct
\* attempts are numbered 1 to 3 and it ends at the first that succeeds; the
\* wait after failed attempt n is 200 * 2^n ms (400, 800, 1600); the proxy
\* is requested only after the wait of the third failed attempt, and a
\* refresh at the proxy only ends.
C33_RetryThenProxy ==
    /\ [](\A i \in 1..Len(refreshes) :
              /\ refreshes[i].pc \in {"direct", "backoff", "proxy"}
              /\ refreshes[i].attempt \in 1..3
              /\ refreshes[i].pc = "proxy" => refreshes[i].attempt = 3
              /\ refreshes[i].pc = "backoff"
                     => Backoff(refreshes[i].attempt) = << 400, 800, 1600 >>[refreshes[i].attempt])
    /\ [][/\ Len(refreshes') = Len(refreshes)
             => \A i \in 1..Len(refreshes) :
                    \/ refreshes'[i] = refreshes[i]
                    \/ /\ CallSteps(refreshes[i], refreshes'[i])
                       /\ \A j \in 1..Len(refreshes) : j # i => refreshes'[j] = refreshes[j]
          /\ Len(refreshes') > Len(refreshes)
             => /\ Len(refreshes') = Len(refreshes) + 1
                /\ SubSeq(refreshes', 1, Len(refreshes)) = refreshes
                /\ refreshes'[Len(refreshes')].pc = "direct"
                /\ refreshes'[Len(refreshes')].attempt = 1
          /\ Len(refreshes') < Len(refreshes)
             => \E i \in 1..Len(refreshes) :
                    /\ refreshes[i].pc \in {"direct", "proxy"}
                    /\ refreshes' = RemoveAt(refreshes, i)]_vars

\* A refresh is at the proxy request, its three direct attempts failed,
\* while a later refresh waits after its second failed attempt.
C33_Witness ==
    /\ Len(refreshes) = 2
    /\ refreshes[1].pc = "proxy" /\ refreshes[1].attempt = 3
    /\ refreshes[2].pc = "backoff" /\ refreshes[2].attempt = 2

\* C34: when the proxy attempt of a refresh fails after its direct attempts,
\* a cached result less than 5000 ms old becomes the stored list and the
\* status becomes loading false, no error, count the cached length; with no
\* such cache the status becomes loading false, 'Fetch failed', and the
\* stored list is left as it is.
C34_FallbackOrFailure ==
    [][(\E i \in 1..MaxRefreshes : ProxyReject(i))
       => IF cache.has /\ cacheAge < 5000
          THEN /\ aircraftRef' = cache.data
               /\ status' = [loading |-> FALSE, error |-> NoError,
                             count |-> Len(cache.data)]
          ELSE /\ status'.loading = FALSE /\ status'.error = FetchFailed
               /\ aircraftRef' = aircraftRef]_vars

\* A refresh has ended in the cache fallback: the status counts the cached
\* list, which a downsampling run had made shorter than what it parsed.
C34_Witness ==
    /\ status.loading = FALSE /\ status.error = NoError
    /\ cache.has /\ aircraftRef = cache.data
    /\ status.count = Len(cache.data)
    /\ status.count < Len(lastRun.next)

\* C35 as stated, where the multiplier only grows and so tells which of two
\* calls started first: a filter run that commits its result is never that
\* of a call that started before the call whose run committed last.
C35_CommitsInStartOrder ==
    [][lastRun' # lastRun => lastRun'.startScale >= lastRun.startScale]_vars

\* C36: at most one frame request is pending, and it is the one
\* rafRef.current names, so that the cancel of a cleanup reaches it; every
\* new request (by a frame, by a restart of the effect after a detail
\* change or a heatmap toggle) takes the place of the one before it, which
\* is pending no longer; after the teardown none is pending.
C36_OneLoop ==
    /\ [](/\ pendingRaf = 0 \/ pendingRaf = rafRef
          /\ ~mounted => pendingRaf = 0)
    /\ [][rafRef' # rafRef
          => /\ rafRef' > rafRef
             /\ pendingRaf' = rafRef'
             /\ pendingRaf' # pendingRaf]_vars

\* The loop was restarted by a detail change and by a heatmap toggle, a
\* frame of the restarted loop has run, and the component was torn down.
C36_Witness ==
    /\ ~mounted /\ pendingRaf = 0
    /\ detail # "auto" /\ heatmapOn
    /\ lastTune.band # "none"

\* C37 as stated: after a successful refresh the count held in the status is
\* the length of the stored list, also when the run downsampled.
C37_CountIsStoredLength ==
    (status.loading = FALSE /\ status.error = NoError)
        => status.count = Len(aircraftRef)

\* C38: once a refresh has succeeded the cached list is the stored list, in
\* every state; the cache fallback therefore assigns the stored list the
\* contents it already has.
C38_CacheIsStoredList ==
    /\ [](cache.has => cache.data = aircraftRef)
    /\ [][(\E i \in 1..MaxRefreshes : ProxyReject(i)) => aircraftRef' = aircraftRef]_vars

\* A refresh has ended in the cache fallback onto a downsampled list, and a
\* frame has drawn the list since.
C38_Witness ==
    /\ status.loading = FALSE /\ status.error = NoError
    /\ cache.has /\ status.count < Len(lastRun.next)
    /\ cacheAge > 0
    /\ lastTune.aircraft = cache.data /\ Len(fpsSamples) >= 2

\* C39: for every value the multiplier takes, the admission cap
\* max(200, floor(3000 / scale)) lies between 375 and 3000, and it is
\* floor(3000 / scale) itself: the lower clamp of 200 never decides it.  So
\* does the cap of every filter run.
C39_CapRange ==
    /\ MaxInView(autoScaleRef) \in 375..3000
    /\ MaxInView(autoScaleRef) = (3000 * ScaleUnit) \div autoScaleRef
    /\ (3000 * ScaleUnit) \div autoScaleRef > 200
    /\ lastRun # NoRun => lastRun.cap \in 375..3000

\* The multiplier is at its largest after a filter run under the largest
\* cap: the cap is 375 now.
C39_Witness ==
    /\ autoScaleRef = 8 * ScaleUnit /\ MaxInView(autoScaleRef) = 375
    /\ lastRun.cap = 3000

\* The window mean was below 22 (above 35) at each of the last n frames of
\* the window, counted while no sample has left it.
SlowFor(n) ==
    /\ Len(fpsSamples) >= n
    /\ \A k \in (Len(fpsSamples) - n + 1)..Len(fpsSamples) :
           AvgBelow(SubSeq(fpsSamples, 1, k), 22)
FastFor(n) ==
    /\ Len(fpsSamples) >= n
    /\ \A k \in (Len(fpsSamples) - n + 1)..Len(fpsSamples) :
           AvgAbove(SubSeq(fpsSamples, 1, k), 35)

====
